---- MODULE Spec2Model ----
(***************************************************************************)
(* Model of the fitness backend (src/server.js): an express application    *)
(* whose handlers issue SQL statements on ONE shared sqlite3 connection    *)
(* (`db`).  A handler runs to completion and only enqueues statements; the *)
(* connection executes one statement at a time and then runs the callback  *)
(* that was registered with it.  Statements issued inside db.serialize()   *)
(* keep their order; statements issued outside of it (parallel mode) may   *)
(* be executed in any order among themselves.                              *)
(*                                                                         *)
(* Storage faults: a statement may be rejected by the storage engine (a    *)
(* constraint violation, SQLITE_BUSY).  A rejected statement has no effect *)
(* and leaves an open transaction open.                                    *)
(* A statement issued without callback that fails raises an 'error' event *)
(* nothing listens to, which ends the process.                             *)
(***************************************************************************)
EXTENDS Integers, Sequences, FiniteSets, Bags, TLC

(* ------------------------------ bounds --------------------------------- *)
\* requests handled in one run
MaxReq == 2
\* statements the storage engine rejects in one run
MaxFaults == 1

(* ------------------------- JavaScript values --------------------------- *)
Undefined == [type |-> "undefined"]
JNull == [type |-> "null"]
JNum(n) == [type |-> "number", v |-> n]
JStr(s) == [type |-> "string", v |-> s]
\* a plain object: its own properties in insertion order, <<name, number>>
JObj(props) == [type |-> "object", props |-> props]

\* `!x` is false
Truthy(x) ==
    CASE x.type = "undefined" -> FALSE
      [] x.type = "null" -> FALSE
      [] x.type = "number" -> x.v # 0
      [] x.type = "string" -> x.v # ""
      [] OTHER -> TRUE

\* `x && typeof x === 'object'`
IsObjectSection(x) == Truthy(x) /\ x.type \in {"object", "map"}

Digit(d) ==
    CASE d = 0 -> "0" [] d = 1 -> "1" [] d = 2 -> "2" [] d = 3 -> "3"
      [] d = 4 -> "4" [] d = 5 -> "5" [] d = 6 -> "6" [] d = 7 -> "7"
      [] d = 8 -> "8" [] OTHER -> "9"

RECURSIVE NumText(_)
NumText(n) == IF n < 10 THEN Digit(n) ELSE NumText(n \div 10) \o Digit(n % 10)

RECURSIVE PropsText(_)
PropsText(props) ==
    IF props = << >> THEN ""
    ELSE "\"" \o props[1][1] \o "\":" \o NumText(props[1][2])
         \o (IF Len(props) > 1 THEN "," ELSE "") \o PropsText(Tail(props))

\* JSON.stringify of a value that came out of the request body
JSONstringify(x) ==
    CASE x.type = "null" -> "null"
      [] x.type = "number" -> NumText(x.v)
      [] x.type = "string" -> "\"" \o x.v \o "\""
      [] OTHER -> "{" \o PropsText(x.props) \o "}"

DefaultSettings ==
    JObj(<< <<"height", 177>>, <<"targetBodyFat", 15>>, <<"currentBodyFat", 22>> >>)

PlanA == JObj(<< <<"kcal", 2000>> >>)
PlanB == JObj(<< <<"kcal", 2500>>, <<"protein", 150>> >>)

\* the JSON values of the model: what a request body can carry
JsonValues == {JNull, JNum(0), JNum(5), JStr("x"), PlanA, PlanB, DefaultSettings}

SyntaxError == [type |-> "SyntaxError"]

\* JSON.parse: the value whose text this is, or a SyntaxError
JSONparse(text) ==
    IF \E x \in JsonValues : JSONstringify(x) = text
    THEN CHOOSE x \in JsonValues : JSONstringify(x) = text
    ELSE SyntaxError

\* a stored payload that is no JSON text
CorruptText == "{kcal:"

(* ------------------------------ inputs --------------------------------- *)
\* users registered before the run; their tokens are in the clients' hands
UserIds == {1, 2}
EmailOf(u) == IF u = 1 THEN "a@x" ELSE "b@x"
MonthKeys == {"2025-07", "2025-08", "__proto__"}
DocTables == {"nutrition_data", "workout_data"}

\* an object whose properties are month-keys: <<monthKey, payload>> in
\* insertion order (what Object.entries walks)
JMap(entries) == [type |-> "map", entries |-> entries]

(* ------------------------------ tables --------------------------------- *)
\* server.js 61-115.  A table is the bag of its rows (the rowid is left out);
\* activity_logs keeps its rows in insertion order.
DocRow(uid, mk, data) == [user_id |-> uid, month_key |-> mk, data |-> data]
SettingsRow(uid, text) == [user_id |-> uid, settings |-> text]
UserRow(id, email, hash) == [id |-> id, email |-> email, password_hash |-> hash]
LogRow(uid, action) == [user_id |-> uid, action |-> action]

hashPassword(password) == "bcrypt:" \o password

RegisteredUsers == SetToBag({UserRow(u, EmailOf(u), hashPassword("secret1")) : u \in UserIds})

EmptyDb ==
    [users |-> RegisteredUsers, nutrition_data |-> EmptyBag, workout_data |-> EmptyBag,
     user_settings |-> EmptyBag, activity_logs |-> << >>]

\* a database file left by earlier runs: user 1 has a nutrition row whose
\* payload is no JSON text, beside well-formed rows of both users
SeededDb ==
    [EmptyDb EXCEPT
       !.nutrition_data = SetToBag({DocRow(1, "2025-07", CorruptText),
                                    DocRow(1, "2025-08", JSONstringify(PlanA)),
                                    DocRow(2, "2025-07", JSONstringify(PlanB))}),
       !.workout_data = SetToBag({DocRow(1, "2025-07", JSONstringify(PlanA))})]

InitDbs == {EmptyDb, SeededDb}

Rows(table) == BagToSet(table)

\* the rows left after deleting those in `gone`
Without(table, gone) == [r \in Rows(table) \ gone |-> table[r]]

\* a plain INSERT: the conflicting row is kept
NaiveInsertDoc(table, uid, mk, data) == table (+) SetToBag({DocRow(uid, mk, data)})

\* INSERT OR IGNORE: the first write to a key wins
InsertOrIgnoreDoc(table, uid, mk, data) ==
    IF \E r \in Rows(table) : r.user_id = uid /\ r.month_key = mk THEN table
    ELSE table (+) SetToBag({DocRow(uid, mk, data)})

\* INSERT OR REPLACE INTO <nutrition_data|workout_data> (user_id, month_key, data):
\* UNIQUE(user_id, month_key) conflict rows are deleted, then the row is inserted
InsertOrReplaceDoc(table, uid, mk, data) ==
    Without(table, {r \in Rows(table) : r.user_id = uid /\ r.month_key = mk})
        (+) SetToBag({DocRow(uid, mk, data)})

\* INSERT OR REPLACE INTO user_settings (user_id, settings): UNIQUE(user_id)
InsertOrReplaceSettings(table, uid, text) ==
    Without(table, {r \in Rows(table) : r.user_id = uid})
        (+) SetToBag({SettingsRow(uid, text)})

\* number of rows of a table
RowCount(table) == BagCardinality(table)

(* ----------------------------- statements ------------------------------ *)
\* One db.run / db.get / db.all call: the SQL, its parameters, the request
\* whose closure the callback belongs to, the callback, and whether it was
\* issued inside db.serialize.
Stmt(op, table, uid, key, text, req, cb, excl) ==
    [op |-> op, table |-> table, uid |-> uid, key |-> key, text |-> text,
     req |-> req, cb |-> cb, excl |-> excl, limit |-> 0]

\* SELECT ... FROM activity_logs WHERE user_id = ?: the user's entries
LogsOf(logs, uid) == SelectSeq(logs, LAMBDA e : e.user_id = uid)

\* LIMIT ?: a negative limit is no limit
Limit(rows, n) == IF n < 0 \/ n >= Len(rows) THEN rows ELSE SubSeq(rows, 1, n)

NoTxn == [active |-> FALSE, saved |-> EmptyDb]

\* What the connection does with one statement: the database and transaction
\* state after it, whether it failed, and the rows a SELECT yields.
\* `rejected` is a storage fault.
Run(s, rejected, d, t) ==
    LET same == [db |-> d, txn |-> t, err |-> FALSE, rows |-> {}, lastID |-> 0]
        fail == [same EXCEPT !.err = TRUE]
    IN  IF rejected THEN fail
        ELSE CASE s.op = "BEGIN" ->
                    IF t.active THEN fail
                    ELSE [same EXCEPT !.txn = [active |-> TRUE, saved |-> d]]
               [] s.op = "COMMIT" ->
                    IF t.active THEN [same EXCEPT !.txn = NoTxn] ELSE fail
               [] s.op = "ROLLBACK" ->
                    IF t.active THEN [same EXCEPT !.db = t.saved, !.txn = NoTxn] ELSE fail
               [] s.op = "REPLACE" /\ s.table = "user_settings" ->
                    [same EXCEPT !.db.user_settings =
                        InsertOrReplaceSettings(d.user_settings, s.uid, s.text)]
               [] s.op = "REPLACE" ->
                    [same EXCEPT !.db[s.table] =
                        InsertOrReplaceDoc(d[s.table], s.uid, s.key, s.text)]
               [] s.op = "INSERT" /\ s.table = "activity_logs" ->
                    [same EXCEPT !.db.activity_logs = Append(@, LogRow(s.uid, s.key))]
               [] s.op = "INSERT" /\ s.table = "users" ->
                    IF \E r \in Rows(d.users) : r.email = s.key THEN fail
                    ELSE [same EXCEPT !.lastID = RowCount(d.users) + 1, !.db.users =
                            @ (+) SetToBag({UserRow(RowCount(d.users) + 1, s.key, s.text)})]
               [] s.op = "SELECT" /\ s.table = "users" ->
                    [same EXCEPT !.rows = {r \in Rows(d.users) : r.email = s.key}]
               [] s.op = "SELECT" /\ s.table = "activity_logs" ->
                    [same EXCEPT !.rows = Limit(LogsOf(d.activity_logs, s.uid), s.limit)]
               [] s.op = "SELECT" /\ s.table = "stats" -> same
               [] OTHER ->
                    [same EXCEPT !.rows = {r \in Rows(d[s.table]) : r.user_id = s.uid}]

(* ------------------------------ requests ------------------------------- *)
VARIABLES
    db,       \* the tables as the shared connection sees them
    txn,      \* the connection's transaction: open or not, and the rollback image
    queue,    \* statements issued on the connection and not yet executed
    reqs,     \* the requests handled so far, with their closures and responses
    faults,   \* statements rejected by the storage engine so far
    last,     \* the statement executed last, and whether it failed
    written,  \* per key, the payload of the latest upsert that was executed
    up        \* the server process is running

vars == <<db, txn, queue, reqs, faults, last, written, up>>

\* Authorization headers: none, "Bearer" alone, or "Bearer <token>"
NoHeader == Undefined
Token(u, signed) == [type |-> "jwt", userId |-> u, email |-> EmailOf(u), signed |-> signed]
Bearer(token) == [type |-> "header", token |-> token]
AuthHeaders ==
    {NoHeader, Bearer(Undefined), Bearer(Token(1, FALSE)), Bearer(Token(1, TRUE))}

Res(status, code, data) == [status |-> status, code |-> code, data |-> data]
NoData == << >>

\* authenticateToken without the `if (!token)` branch
authenticateTokenUnchecked(header) ==
    LET token == IF header = NoHeader THEN Undefined ELSE header.token
    IN  IF token = Undefined
        THEN [next |-> TRUE, res |-> Res(0, "", NoData), userId |-> 0]
        ELSE IF ~token.signed
        THEN [next |-> FALSE, res |-> Res(403, "INVALID_TOKEN", NoData), userId |-> 0]
        ELSE [next |-> TRUE, res |-> Res(0, "", NoData), userId |-> token.userId]

\* authenticateToken: the response it sends, or the user it passes on
authenticateToken(header) ==
    LET token == IF header = NoHeader THEN Undefined ELSE header.token
    IN  IF token = Undefined
        THEN [next |-> FALSE, res |-> Res(401, "NO_TOKEN", NoData), userId |-> 0]
        ELSE IF ~token.signed
        THEN [next |-> FALSE, res |-> Res(403, "INVALID_TOKEN", NoData), userId |-> 0]
        ELSE [next |-> TRUE, res |-> Res(0, "", NoData), userId |-> token.userId]

NoBody == [data |-> Undefined]

Request(route, header, userId, key, body) ==
    [route |-> route, header |-> header, userId |-> userId, key |-> key, body |-> body,
     hasError |-> FALSE, operationsCount |-> 0, res |-> << >>,
     part |-> << >>, settled |-> FALSE, hashing |-> FALSE]

\* res.status(..).json(..)
Send(q, response) == [q EXCEPT !.res = Append(@, response)]

handleError(q) == Send(q, Res(500, "INTERNAL_ERROR", NoData))

logActivity(userId, action, r) ==
    Stmt("INSERT", "activity_logs", userId, action, "", r, "none", FALSE)

NextReq == Len(reqs) + 1

\* a request that authenticateToken answers itself
Rejected(route, header) ==
    /\ up
    /\ reqs' = Append(reqs, Send(Request(route, header, 0, "", NoBody),
                                 authenticateToken(header).res))
    /\ UNCHANGED <<db, txn, queue, faults, last, written, up>>

\* a handler that answers and records the refusal in the activity log
AnsweredAndLogged(q, response) ==
    /\ up
    /\ reqs' = Append(reqs, Send(q, response))
    /\ queue' = Append(queue, logActivity(q.userId, "REFUSED", Len(reqs) + 1))
    /\ UNCHANGED <<db, txn, faults, last, written, up>>

\* a handler that answers without issuing a statement
Answered(q, response) ==
    /\ up
    /\ reqs' = Append(reqs, Send(q, response))
    /\ UNCHANGED <<db, txn, queue, faults, last, written, up>>

\* a handler that issues statements and returns
Issued(q, stmts) ==
    /\ up
    /\ reqs' = Append(reqs, q)
    /\ queue' = queue \o stmts
    /\ UNCHANGED <<db, txn, faults, last, written, up>>

\* POST /api/nutrition/:monthKey and POST /api/workouts/:monthKey
PostDoc(route, table, cb, headers, monthKeys, payloads) ==
    /\ Len(reqs) < MaxReq
    /\ \E header \in headers :
         LET a == authenticateToken(header) IN
         IF ~a.next THEN Rejected(route, header)
         ELSE \E monthKey \in monthKeys, data \in payloads :
                LET q == Request(route, header, a.userId, monthKey, [data |-> data]) IN
                IF ~Truthy(data) THEN Answered(q, Res(400, "MISSING_DATA", NoData))
                ELSE Issued(q, << Stmt("REPLACE", table, a.userId, monthKey,
                                       JSONstringify(data), NextReq, cb, FALSE) >>)

PostNutrition(headers, monthKeys, payloads) ==
    PostDoc("POST /api/nutrition/:monthKey", "nutrition_data", "nutritionSaved",
            headers, monthKeys, payloads)

PostWorkouts(headers, monthKeys, payloads) ==
    PostDoc("POST /api/workouts/:monthKey", "workout_data", "workoutSaved",
            headers, monthKeys, payloads)

\* POST /api/settings
PostSettings(headers, payloads) ==
    /\ Len(reqs) < MaxReq
    /\ \E header \in headers :
         LET a == authenticateToken(header) IN
         IF ~a.next THEN Rejected("POST /api/settings", header)
         ELSE \E settings \in payloads :
                LET q == Request("POST /api/settings", header, a.userId, "",
                                 [settings |-> settings]) IN
                IF ~Truthy(settings) THEN Answered(q, Res(400, "MISSING_SETTINGS", NoData))
                ELSE Issued(q, << Stmt("REPLACE", "user_settings", a.userId, "",
                                       JSONstringify(settings), NextReq, "settingsSaved", FALSE) >>)

\* the upserts of a section when `typeof section === 'object'` is not asked:
\* Object.entries of the string "x" is [["0", "x"]]
EntryStmtsUntyped(section, table, uid, r) ==
    IF ~Truthy(section) THEN << >>
    ELSE IF section.type = "string"
    THEN << Stmt("REPLACE", table, uid, "0", JSONstringify(section), r, "syncUpsert", TRUE) >>
    ELSE [i \in 1..Len(section.entries) |->
            Stmt("REPLACE", table, uid, section.entries[i][1],
                 JSONstringify(section.entries[i][2]), r, "syncUpsert", TRUE)]

\* the upserts of one section of a bulk write, in Object.entries order
EntryStmts(section, table, uid, r) ==
    IF IsObjectSection(section)
    THEN [i \in 1..Len(section.entries) |->
            Stmt("REPLACE", table, uid, section.entries[i][1],
                 JSONstringify(section.entries[i][2]), r, "syncUpsert", TRUE)]
    ELSE << >>

SettingsStmts(settings, uid, r) ==
    IF IsObjectSection(settings)
    THEN << Stmt("REPLACE", "user_settings", uid, "", JSONstringify(settings),
                 r, "syncUpsert", TRUE) >>
    ELSE << >>

\* POST /api/sync: everything is issued inside db.serialize
PostSync(headers, bodies) ==
    /\ Len(reqs) < MaxReq
    /\ \E header \in headers :
         LET a == authenticateToken(header) IN
         IF ~a.next THEN Rejected("POST /api/sync", header)
         ELSE \E body \in bodies :
                LET r == NextReq IN
                Issued(Request("POST /api/sync", header, a.userId, "", body),
                       << Stmt("BEGIN", "", 0, "", "", r, "none", TRUE) >>
                       \o EntryStmts(body.nutrition, "nutrition_data", a.userId, r)
                       \o EntryStmts(body.workouts, "workout_data", a.userId, r)
                       \o SettingsStmts(body.settings, a.userId, r)
                       \o << Stmt("COMMIT", "", 0, "", "", r, "syncCommit", TRUE) >>)

Select(table, uid, r, cb) == Stmt("SELECT", table, uid, "", "", r, cb, FALSE)

\* a GET handler that issues SELECTs WHERE user_id = the token's user; the
\* statistics query has no user parameter
GetRows(route, headers, selects) ==
    /\ Len(reqs) < MaxReq
    /\ \E header \in headers :
         LET a == authenticateToken(header) IN
         IF ~a.next THEN Rejected(route, header)
         ELSE Issued(Request(route, header, a.userId, "", NoBody),
                     [i \in DOMAIN selects |->
                         Select(selects[i][1],
                                IF selects[i][1] = "stats" THEN 0 ELSE a.userId,
                                NextReq, selects[i][2])])

\* GET /api/sync: three queries in parallel
GetSync(headers) ==
    GetRows("GET /api/sync", headers,
            << <<"nutrition_data", "syncNutrition">>,
               <<"workout_data", "syncWorkouts">>,
               <<"user_settings", "syncSettings">> >>)

\* GET /api/nutrition
GetNutrition(headers) ==
    GetRows("GET /api/nutrition", headers, << <<"nutrition_data", "nutritionRows">> >>)

\* GET /api/workouts
GetWorkouts(headers) ==
    GetRows("GET /api/workouts", headers, << <<"workout_data", "workoutRows">> >>)

\* GET /api/settings
GetSettings(headers) ==
    GetRows("GET /api/settings", headers, << <<"user_settings", "settingsRow">> >>)

\* GET /api/admin/stats
GetAdminStats(headers) ==
    GetRows("GET /api/admin/stats", headers, << <<"stats", "statsRows">> >>)

\* parseInt(req.query.limit) for the query strings of the model; NaN (no
\* leading digits, or no parameter) is falsy like 0 and modelled as 0
parseInt(text) ==
    CASE text = Undefined -> 0
      [] text = JStr("0") -> 0
      [] text = JStr("1") -> 1
      [] text = JStr("-1") -> 0 - 1
      [] text = JStr("60") -> 60
      [] text = JStr("500") -> 500
      [] OTHER -> 0

Min(a, b) == IF a < b THEN a ELSE b

\* Math.min(parseInt(req.query.limit) || 50, 100)
LogLimit(text) == Min(IF parseInt(text) # 0 THEN parseInt(text) ELSE 50, 100)

\* GET /api/logs
GetLogs(headers, limits) ==
    /\ Len(reqs) < MaxReq
    /\ \E header \in headers :
         LET a == authenticateToken(header) IN
         IF ~a.next THEN Rejected("GET /api/logs", header)
         ELSE \E limit \in limits :
                Issued(Request("GET /api/logs", header, a.userId, "", [limit |-> limit]),
                       << [Select("activity_logs", a.userId, NextReq, "logRows")
                             EXCEPT !.limit = LogLimit(limit)] >>)

\* POST /api/auth/register, up to the lookup of the email
PostRegister(emails, passwords) ==
    /\ Len(reqs) < MaxReq
    /\ \E email \in emails, password \in passwords :
         LET q == Request("POST /api/auth/register", NoHeader, 0, email,
                          [email |-> email, password |-> password]) IN
         IF email = "" \/ password = "" THEN Answered(q, Res(400, "MISSING_FIELDS", NoData))
         ELSE IF Len(password) < 6 THEN Answered(q, Res(400, "PASSWORD_TOO_SHORT", NoData))
         ELSE Issued(q, << Stmt("SELECT", "users", 0, email, "", NextReq, "userLookup", FALSE) >>)

\* POST /api/auth/register: `await hashPassword(password)` resumes and the
\* INSERT is issued
RegisterHashed ==
    \E r \in DOMAIN reqs :
        /\ up
        /\ reqs[r].hashing
        /\ reqs' = [reqs EXCEPT ![r].hashing = FALSE]
        /\ queue' = Append(queue, Stmt("INSERT", "users", 0, reqs[r].body.email,
                                       hashPassword(reqs[r].body.password), r,
                                       "userCreated", FALSE))
        /\ UNCHANGED <<db, txn, faults, last, written, up>>

(* ------------------------------ callbacks ------------------------------ *)
\* obj[key] = value on a plain object: "__proto__" names the prototype, not
\* an own property
SetProperty(obj, key, value) ==
    IF key = "__proto__" THEN obj
    ELSE [k \in DOMAIN obj \cup {key} |-> IF k = key THEN value ELSE obj[k]]

\* rows.forEach(row => { try { data[row.month_key] = JSON.parse(row.data) } catch {} })
RECURSIVE ParsedRows(_)
ParsedRows(rows) ==
    IF rows = {} THEN << >>
    ELSE LET row == CHOOSE r \in rows : TRUE
             rest == ParsedRows(rows \ {row})
             value == JSONparse(row.data)
         IN  IF value = SyntaxError THEN rest ELSE SetProperty(rest, row.month_key, value)

\* the settings read without the default for a missing row
ParsedSettingsNoDefault(rows) ==
    IF rows = {} THEN JNull
    ELSE LET value == JSONparse((CHOOSE r \in rows : TRUE).settings)
         IN  IF value = SyntaxError THEN DefaultSettings ELSE value

\* row ? JSON.parse(row.settings) : default, and the default on a parse error
ParsedSettings(rows) ==
    IF rows = {} THEN DefaultSettings
    ELSE LET value == JSONparse((CHOOSE r \in rows : TRUE).settings)
         IN  IF value = SyntaxError THEN DefaultSettings ELSE value

Done(q) == [req |-> q, stmts |-> << >>]

\* POST /api/sync: handleTransactionError
handleTransactionError(q, r) ==
    IF ~q.hasError
    THEN [req |-> handleError([q EXCEPT !.hasError = TRUE]),
          stmts |-> << Stmt("ROLLBACK", "", 0, "", "", r, "none", FALSE),
                       logActivity(q.userId, "SYNC_SAVE_ERROR", r) >>]
    ELSE Done(q)

\* the callback of each upsert without `operationsCount++`
SyncUpsertDoneUncounted(q, r, err) ==
    IF err /\ ~q.hasError THEN handleTransactionError(q, r) ELSE Done(q)

\* POST /api/sync: the callback of each upsert
SyncUpsertDone(q, r, err) ==
    IF err /\ ~q.hasError THEN handleTransactionError(q, r)
    ELSE Done([q EXCEPT !.operationsCount = @ + 1])

\* POST /api/sync: the callback of COMMIT
SyncCommitDone(q, r, err) ==
    IF err /\ ~q.hasError THEN handleTransactionError(q, r)
    ELSE IF ~q.hasError
    THEN [req |-> Send(q, Res(200, "", [operations |-> q.operationsCount])),
          stmts |-> << logActivity(q.userId, "SYNC_SAVE", r) >>]
    ELSE Done(q)

\* POST /api/nutrition/:monthKey, /api/workouts/:monthKey, /api/settings: the
\* callback of the upsert
SaveDone(q, r, err, action) ==
    IF err THEN Done(handleError(q))
    ELSE [req |-> Send(q, Res(200, "", NoData)),
          stmts |-> << logActivity(q.userId, action, r) >>]

\* GET /api/nutrition and GET /api/workouts: the callback of the query
RowsDone(q, err, rows, name) ==
    IF err THEN Done(handleError(q))
    ELSE Done(Send(q, Res(200, "", (name :> ParsedRows(rows)))))

\* GET /api/settings: the callback of the query
SettingsDone(q, err, rows) ==
    IF err THEN Done(handleError(q))
    ELSE Done(Send(q, Res(200, "", [settings |-> ParsedSettings(rows)])))

SyncParts == {"nutrition", "workouts", "settings"}

\* GET /api/sync: one query's callback settles its promise; Promise.all then
\* runs .then once all three are resolved, or .catch at the first rejection
SyncPartDone(q, r, err, name, value) ==
    IF q.settled THEN Done(q)
    ELSE IF err
    THEN [req |-> handleError([q EXCEPT !.settled = TRUE]),
          stmts |-> << logActivity(q.userId, "SYNC_ERROR", r) >>]
    ELSE LET part == (name :> value) @@ q.part IN
         IF DOMAIN part = SyncParts
         THEN [req |-> Send([q EXCEPT !.part = part, !.settled = TRUE],
                            Res(200, "", part)),
               stmts |-> << logActivity(q.userId, "SYNC_GET", r) >>]
         ELSE Done([q EXCEPT !.part = part])

\* GET /api/logs and GET /api/admin/stats: the callback of the query
ListDone(q, err, rows) ==
    IF err THEN Done(handleError(q))
    ELSE Done(Send(q, Res(200, "", [count |-> Len(rows)])))

StatsDone(q, err) ==
    IF err THEN Done(handleError(q)) ELSE Done(Send(q, Res(200, "", NoData)))

\* POST /api/auth/register: the callback of the email lookup
UserLookupDone(q, err, rows) ==
    IF err THEN Done(handleError(q))
    ELSE IF rows # {} THEN Done(Send(q, Res(400, "EMAIL_EXISTS", NoData)))
    ELSE Done([q EXCEPT !.hashing = TRUE])

\* POST /api/auth/register: the callback of the INSERT
UserCreatedDone(q, r, err, lastID) ==
    IF err THEN Done(handleError(q))
    ELSE [req |-> Send(q, Res(201, "", [id |-> lastID])),
          stmts |-> << logActivity(lastID, "REGISTER", r) >>]

\* the callback registered with statement s, run on its outcome
Callback(s, out, q) ==
    CASE s.cb = "syncUpsert" -> SyncUpsertDone(q, s.req, out.err)
      [] s.cb = "syncCommit" -> SyncCommitDone(q, s.req, out.err)
      [] s.cb = "nutritionSaved" -> SaveDone(q, s.req, out.err, "NUTRITION_SAVE")
      [] s.cb = "workoutSaved" -> SaveDone(q, s.req, out.err, "WORKOUT_SAVE")
      [] s.cb = "settingsSaved" -> SaveDone(q, s.req, out.err, "SETTINGS_SAVE")
      [] s.cb = "nutritionRows" -> RowsDone(q, out.err, out.rows, "nutrition")
      [] s.cb = "workoutRows" -> RowsDone(q, out.err, out.rows, "workouts")
      [] s.cb = "settingsRow" -> SettingsDone(q, out.err, out.rows)
      [] s.cb = "syncNutrition" ->
            SyncPartDone(q, s.req, out.err, "nutrition", ParsedRows(out.rows))
      [] s.cb = "syncWorkouts" ->
            SyncPartDone(q, s.req, out.err, "workouts", ParsedRows(out.rows))
      [] s.cb = "syncSettings" ->
            SyncPartDone(q, s.req, out.err, "settings", ParsedSettings(out.rows))
      [] s.cb = "logRows" -> ListDone(q, out.err, out.rows)
      [] s.cb = "statsRows" -> StatsDone(q, out.err)
      [] s.cb = "userLookup" -> UserLookupDone(q, out.err, out.rows)
      [] s.cb = "userCreated" -> UserCreatedDone(q, s.req, out.err, out.lastID)
      [] OTHER -> Done(q)

(* ----------------------------- the connection -------------------------- *)
RemoveAt(seq, i) == SubSeq(seq, 1, i - 1) \o SubSeq(seq, i + 1, Len(seq))

\* the statements the connection may execute next: the first one, or any of
\* the parallel-mode statements at the front of the queue
Ready(i) ==
    /\ i \in DOMAIN queue
    /\ \A j \in 1..(i - 1) : ~queue[j].excl
    /\ (queue[i].excl => i = 1)

WrittenKey(s) == <<s.table, s.uid, s.key>>

\* the payload a bulk or per-resource upsert was issued for
PayloadOf(s, q) ==
    IF q.route = "POST /api/sync"
    THEN IF s.table = "user_settings" THEN q.body.settings
         ELSE LET section == IF s.table = "nutrition_data" THEN q.body.nutrition
                             ELSE q.body.workouts
              IN  section.entries[CHOOSE i \in DOMAIN section.entries :
                                     section.entries[i][1] = s.key][2]
    ELSE IF s.table = "user_settings" THEN q.body.settings ELSE q.body.data

\* db.run(sql) or db.run(sql, params) without callback (BEGIN, ROLLBACK and
\* the INSERT of logActivity): when the statement fails, sqlite3 emits 'error'
\* on the Statement object, which has no listener, and the emit throws: an
\* uncaught exception, which ends the process
Unhandled(s, out) == out.err /\ s.cb = "none"

\* the connection executes one statement and runs its callback; the storage
\* engine may reject a statement of one of the kinds in `rejectable`.  When
\* the process ends, the statements still queued are gone with it and the
\* requests still open are never answered.
Exec(i, rejected, rejectable) ==
    /\ up
    /\ Ready(i)
    /\ rejected => (faults < MaxFaults /\ queue[i].op \in rejectable)
    /\ LET s == queue[i]
           out == Run(s, rejected, db, txn)
           cb == Callback(s, out, reqs[s.req])
       IN  /\ db' = out.db
           /\ txn' = out.txn
           /\ reqs' = [reqs EXCEPT ![s.req] = cb.req]
           /\ queue' = IF Unhandled(s, out) THEN << >> ELSE RemoveAt(queue, i) \o cb.stmts
           /\ faults' = IF rejected THEN faults + 1 ELSE faults
           /\ last' = [stmt |-> s, err |-> out.err]
           /\ up' = ~Unhandled(s, out)
           /\ written' = IF s.op = "REPLACE" /\ ~out.err
                         THEN [written EXCEPT ![WrittenKey(s)] = PayloadOf(s, reqs[s.req])]
                         ELSE written

(* --------------------------- specification ----------------------------- *)
WrittenKeys ==
    (DocTables \X UserIds \X MonthKeys) \cup ({"user_settings"} \X UserIds \X {""})

NoStmt == Stmt("", "", 0, "", "", 0, "none", FALSE)

InitWith(dbs) ==
    /\ db \in dbs
    /\ txn = NoTxn
    /\ queue = << >>
    /\ reqs = << >>
    /\ faults = 0
    /\ last = [stmt |-> NoStmt, err |-> FALSE]
    /\ written = [k \in WrittenKeys |-> Undefined]
    /\ up = TRUE

\* the connection takes its next statement
Execute(rejectable) ==
    \E i \in DOMAIN queue, rejected \in BOOLEAN : Exec(i, rejected, rejectable)

Writes == {"REPLACE", "COMMIT"}
AnyStatement == {"REPLACE", "COMMIT", "SELECT", "INSERT"}

Users12 == {Bearer(Token(u, TRUE)) : u \in UserIds}
User1 == {Bearer(Token(1, TRUE))}
User2 == {Bearer(Token(2, TRUE))}

Body(nutrition, workouts, settings) ==
    [nutrition |-> nutrition, workouts |-> workouts, settings |-> settings]

TwoMonths == JMap(<< <<"2025-07", PlanA>>, <<"2025-08", PlanB>> >>)
OneMonth == JMap(<< <<"2025-07", PlanB>> >>)
Malformed == JStr("x")

(* Bulk writes of user 1 beside per-resource writes of user 2. *)
\* request bodies: every section present, or one section absent, one malformed
\* and one present, in each arrangement
SyncBodies ==
    {b \in {Body(n, w, st) : n \in {Undefined, Malformed, TwoMonths},
                             w \in {Undefined, Malformed, OneMonth},
                             st \in {Undefined, Malformed, PlanB}} :
        \/ Cardinality({b.nutrition.type, b.workouts.type, b.settings.type}) = 3
        \/ Undefined \notin {b.nutrition, b.workouts, b.settings}
              /\ Malformed \notin {b.nutrition, b.workouts, b.settings}}

NextSync ==
    \/ PostSync(User1, SyncBodies)
    \/ PostNutrition(User2, {"2025-07"}, {PlanA})
    \/ PostWorkouts(User2, {"2025-07"}, {PlanA})
    \/ GetNutrition(User1)
    \/ Execute(Writes)

SpecSync == InitWith({SeededDb}) /\ [][NextSync]_vars

(* Bulk writes in which a section is absent or malformed. *)
FrameBodies ==
    {Body(TwoMonths, Malformed, Undefined),
     Body(Undefined, OneMonth, Malformed),
     Body(Malformed, Undefined, PlanB)}

NextFrame ==
    \/ PostSync(User1, FrameBodies)
    \/ Execute(Writes)

SpecFrame == InitWith({SeededDb}) /\ [][NextFrame]_vars

(* Every write route, on keys shared by several requests. *)
NextStore ==
    \/ PostNutrition(Users12, {"2025-07", "2025-08"}, {PlanA, PlanB})
    \/ PostWorkouts(User1, {"2025-07"}, {PlanA, PlanB})
    \/ PostSettings(User1, {PlanA, DefaultSettings})
    \/ PostSync(User1, {Body(OneMonth, OneMonth, PlanB)})
    \/ Execute(Writes)

SpecStore == InitWith({EmptyDb}) /\ [][NextStore]_vars

(* Per-resource writes racing on one key. *)
NextRace ==
    \/ PostNutrition(Users12, {"2025-07"}, {PlanA, PlanB})
    \/ PostWorkouts(Users12, {"2025-07"}, {PlanA, PlanB})
    \/ Execute(Writes)

SpecRace == InitWith(InitDbs) /\ [][NextRace]_vars

(* Per-resource writes followed by reads. *)
NextRoundTrip ==
    \/ PostNutrition(User1, MonthKeys, {PlanA, JNum(5)})
    \/ PostWorkouts(User1, MonthKeys, {PlanB})
    \/ GetNutrition(User1)
    \/ GetWorkouts(User1)
    \/ GetSync(User1)
    \/ Execute(AnyStatement)

SpecRoundTrip == InitWith(InitDbs) /\ [][NextRoundTrip]_vars

(* Settings written and read. *)
NextSettings ==
    \/ PostSettings(User1, {PlanA, PlanB})
    \/ PostSync(User1, {Body(Undefined, Undefined, PlanB)})
    \/ GetSettings(Users12)
    \/ GetSync(User1)
    \/ Execute(Writes)

SpecSettings == InitWith({EmptyDb}) /\ [][NextSettings]_vars

(* Every protected route under every kind of Authorization header. *)
NextAuth ==
    \/ PostNutrition(AuthHeaders, {"2025-07"}, {PlanA})
    \/ PostWorkouts(AuthHeaders, {"2025-07"}, {PlanA})
    \/ PostSettings(AuthHeaders, {PlanA})
    \/ PostSync(AuthHeaders, {Body(OneMonth, Undefined, Undefined)})
    \/ GetSync(AuthHeaders)
    \/ GetNutrition(AuthHeaders)
    \/ GetWorkouts(AuthHeaders)
    \/ GetSettings(AuthHeaders)
    \/ GetAdminStats(AuthHeaders)
    \/ GetLogs(AuthHeaders, {Undefined})
    \/ Execute({})

SpecAuth == InitWith({SeededDb}) /\ [][NextAuth]_vars

(* Registrations. *)
NextRegister ==
    \/ PostRegister({"a@x", "c@x", ""}, {"secret1", "abc"})
    \/ RegisterHashed
    \/ Execute({"SELECT", "INSERT"})

SpecRegister == InitWith({EmptyDb}) /\ [][NextRegister]_vars

(* Writes and a bulk read whose log entries the storage engine may reject. *)
LogInserts == {"INSERT"}

NextLog ==
    \/ PostNutrition(Users12, {"2025-07"}, {PlanA, PlanB})
    \/ PostSettings(User1, {PlanA})
    \/ PostSync(User1, {Body(OneMonth, Undefined, PlanB)})
    \/ GetSync(User1)
    \/ Execute(LogInserts)

SpecLog == InitWith({EmptyDb}) /\ [][NextLog]_vars

(* Writes and registrations with and without the required fields. *)
NextValidate ==
    \/ PostNutrition(User1, {"2025-07"}, {Undefined, JNull, PlanA})
    \/ PostWorkouts(User1, {"2025-07"}, {Undefined, PlanA})
    \/ PostSettings(User1, {Undefined, JNull, PlanA})
    \/ PostRegister({"", "c@x"}, {"", "abc", "secret1"})
    \/ RegisterHashed
    \/ Execute({})

SpecValidate == InitWith({SeededDb}) /\ [][NextValidate]_vars

(* Reads of an activity log longer than the largest page. *)
\* a database whose log holds 101 entries of user 1 and 60 of user 2
LoggedDb ==
    [EmptyDb EXCEPT !.activity_logs =
        [i \in 1..161 |-> IF i <= 101 THEN LogRow(1, "SYNC_GET") ELSE LogRow(2, "LOGIN")]]

\* ?limit= absent, zero, in range, negative, not a number, above the maximum
LimitTexts == {Undefined, JStr("0"), JStr("1"), JStr("60"), JStr("-1"), JStr("abc"), JStr("500")}

NextLogs ==
    \/ GetLogs(Users12, LimitTexts)
    \/ Execute({})

SpecLogs == InitWith({LoggedDb}) /\ [][NextLogs]_vars

(* Bulk writes of four, two and no documents. *)
CountBodies ==
    {Body(TwoMonths, OneMonth, PlanB),
     Body(TwoMonths, Malformed, Undefined),
     Body(Undefined, Undefined, Undefined)}

NextCount ==
    \/ PostSync(User1, CountBodies)
    \/ Execute(Writes)

SpecCount == InitWith({SeededDb}) /\ [][NextCount]_vars

(* ------------------------------- claims -------------------------------- *)
Tables3 == DocTables \cup {"user_settings"}

\* the request has been answered and none of its statements is still queued
FinishedIn(rq, qu, r) ==
    /\ rq[r].res # << >>
    /\ ~rq[r].hashing
    /\ \A i \in DOMAIN qu : qu[i].req # r

Finished(r) == FinishedIn(reqs, queue, r)

\* the request was answered with an error
Failed(q) == \E i \in DOMAIN q.res : q.res[i].status >= 400

\* the request was answered once, with success
Succeeded(q) == Len(q.res) = 1 /\ q.res[1].status \in {200, 201}

SectionOf(q, table) ==
    CASE table = "nutrition_data" -> q.body.nutrition
      [] table = "workout_data" -> q.body.workouts
      [] OTHER -> q.body.settings

\* the rows a bulk write upserts into a table
UpsertedRows(q, table) ==
    IF ~IsObjectSection(SectionOf(q, table)) THEN {}
    ELSE IF table = "user_settings"
    THEN {SettingsRow(q.userId, JSONstringify(q.body.settings))}
    ELSE LET e == SectionOf(q, table).entries
         IN  {DocRow(q.userId, e[i][1], JSONstringify(e[i][2])) : i \in DOMAIN e}

\* the rows of a table stored under a key <<table, user, month-key>>
KeyRows(d, k) ==
    IF k[1] = "user_settings" THEN {r \in Rows(d[k[1]]) : r.user_id = k[2]}
    ELSE {r \in Rows(d[k[1]]) : r.user_id = k[2] /\ r.month_key = k[3]}

\* the payload texts stored under a key
StoredText(d, k) ==
    IF k[1] = "user_settings" THEN {r.settings : r \in KeyRows(d, k)}
    ELSE {r.data : r \in KeyRows(d, k)}

\* a key holds at most one row
AtMostOne(d, k) ==
    /\ Cardinality(KeyRows(d, k)) <= 1
    /\ \A r \in KeyRows(d, k) : CopiesIn(r, d[k[1]]) = 1

\* C1: a bulk write that reported failure leaves none of its documents stored
\* once it has finished (all-or-nothing).  Stated for a failed call of a user
\* no other request of whom writes, so that a stored row of the call that was
\* not in the database before can only be the call's own.
C1_BulkAllOrNothing ==
    \A r \in DOMAIN reqs :
        LET q == reqs[r] IN
        (/\ q.route = "POST /api/sync"
         /\ Failed(q)
         /\ Finished(r)
         /\ \A r2 \in DOMAIN reqs \ {r} :
                reqs[r2].userId # q.userId \/ reqs[r2].route = "GET /api/nutrition")
        => \A t \in Tables3 :
              \A row \in UpsertedRows(q, t) :
                  row \in Rows(db[t]) => row \in Rows(SeededDb[t])

\* C2: at most one document per (user, kind, month-key) and one settings row
\* per user; when no write was rejected, a key that was written holds exactly
\* the payload of the latest write executed on it.
C2_OneDocPerKeyLastWriteWins ==
    /\ \A k \in WrittenKeys : AtMostOne(db, k)
    /\ faults = 0 =>
          \A k \in WrittenKeys :
              written[k] # Undefined => StoredText(db, k) = {JSONstringify(written[k])}

\* two successful writes of different payloads to one key; one row is stored
C2_Witness ==
    /\ faults = 0
    /\ \E r1, r2 \in DOMAIN reqs :
          /\ r1 < r2
          /\ reqs[r1].route = "POST /api/nutrition/:monthKey"
          /\ reqs[r2].route = "POST /api/nutrition/:monthKey"
          /\ reqs[r1].userId = reqs[r2].userId
          /\ reqs[r1].key = reqs[r2].key
          /\ reqs[r1].body.data # reqs[r2].body.data
          /\ Finished(r1) /\ Succeeded(reqs[r1])
          /\ Finished(r2) /\ Succeeded(reqs[r2])
          /\ RowCount(db.nutrition_data) = 1

\* the step was the execution of a statement
Executed == last' # last

TableOf(cb) == IF cb \in {"nutritionRows", "syncNutrition"} THEN "nutrition_data" ELSE "workout_data"
PartOf(cb) == IF cb \in {"nutritionRows", "syncNutrition"} THEN "nutrition" ELSE "workouts"

\* C3: a read of GET /api/nutrition or GET /api/workouts returns, under every
\* key that was written and not rejected, a payload equal to the one written
\* (round trip).
C3_RoundTrip ==
    [][(/\ Executed
        /\ last'.stmt.cb \in {"nutritionRows", "workoutRows"}
        /\ ~last'.err
        /\ faults' = 0)
       => LET s == last'.stmt
              got == reqs'[s.req].res[1].data[PartOf(s.cb)]
          IN  \A mk \in MonthKeys :
                LET w == written[<<TableOf(s.cb), s.uid, mk>>]
                IN  w # Undefined => (mk \in DOMAIN got /\ got[mk] = w)]_vars

\* C4: an upsert is applied entirely or not at all: a rejected one changes
\* nothing, and one that is not rejected succeeds whatever is stored (no
\* version check), leaves under its key exactly its own payload, and leaves
\* every other row alone; so each key holds the payload of the write that
\* was executed last on it.
C4_ConcurrentUpserts ==
    [][/\ (Executed /\ last'.stmt.op = "REPLACE") =>
            LET s == last'.stmt
                k == WrittenKey(s)
            IN  /\ last'.err => (db' = db /\ faults' = faults + 1)
                /\ ~last'.err =>
                      /\ StoredText(db', k) = {s.text}
                      /\ AtMostOne(db', k)
                      /\ Without(db'[s.table], KeyRows(db', k))
                            = Without(db[s.table], KeyRows(db, k))
                      /\ \A t \in DOMAIN db : t # s.table => db'[t] = db[t]
       /\ \A k \in WrittenKeys :
            written'[k] # Undefined => StoredText(db', k) = {JSONstringify(written'[k])}]_vars

\* two writes to one key were in flight together, and the one that arrived
\* first was executed last: its payload is the one stored
C4_Witness ==
    \E r1, r2 \in DOMAIN reqs :
        /\ r1 < r2
        /\ reqs[r1].route = "POST /api/nutrition/:monthKey"
        /\ reqs[r2].route = "POST /api/nutrition/:monthKey"
        /\ reqs[r1].userId = reqs[r2].userId
        /\ reqs[r1].key = reqs[r2].key
        /\ reqs[r1].body.data # reqs[r2].body.data
        /\ Finished(r1) /\ Succeeded(reqs[r1])
        /\ Finished(r2) /\ Succeeded(reqs[r2])
        /\ StoredText(db, <<"nutrition_data", reqs[r1].userId, reqs[r1].key>>)
              = {JSONstringify(reqs[r1].body.data)}

Owned(table, uid) == Without(table, {r \in Rows(table) : r.user_id # uid})

\* C6: no statement of a request of user A changes a document or settings
\* row of another user B, and a read by A returns only documents stored
\* under A.
C6_CrossUserIsolation ==
    [][Executed =>
          LET s == last'.stmt
              A == reqs[s.req].userId
          IN  /\ \A B \in UserIds \ {A} : \A t \in Tables3 :
                    Owned(db'[t], B) = Owned(db[t], B)
              /\ (s.cb = "nutritionRows" /\ ~last'.err) =>
                    LET got == reqs'[s.req].res[1].data.nutrition IN
                    \A mk \in DOMAIN got :
                        \E row \in KeyRows(db, <<"nutrition_data", A, mk>>) :
                            JSONparse(row.data) = got[mk]]_vars

\* the user rows with an email
WithEmail(users, email) == {r \in Rows(users) : r.email = email}

\* C7: at most one user row per email, the rows of the users registered
\* before are unchanged, and a registration that passes validation and meets
\* no storage fault either creates the user or is answered 400 EMAIL_EXISTS.
C7_DuplicateEmail ==
    /\ \A r \in Rows(db.users) :
          Cardinality(WithEmail(db.users, r.email)) = 1 /\ CopiesIn(r, db.users) = 1
    /\ \A u \in UserIds :
          WithEmail(db.users, EmailOf(u)) = {UserRow(u, EmailOf(u), hashPassword("secret1"))}
    /\ \A r \in DOMAIN reqs :
          (reqs[r].route = "POST /api/auth/register" /\ reqs[r].res # << >> /\ faults = 0)
          => \/ reqs[r].res[1].status = 201
             \/ reqs[r].res[1].code \in {"EMAIL_EXISTS", "MISSING_FIELDS", "PASSWORD_TOO_SHORT"}

ProtectedRoutes ==
    {"POST /api/nutrition/:monthKey", "POST /api/workouts/:monthKey", "POST /api/settings",
     "POST /api/sync", "GET /api/sync", "GET /api/nutrition", "GET /api/workouts",
     "GET /api/settings", "GET /api/admin/stats", "GET /api/logs"}

\* C8: a request to a protected route without an Authorization header is
\* answered 401 NO_TOKEN by a step that leaves the store, the transaction and
\* the statement queue as they were, and no statement is ever issued or
\* executed for it; a request whose token does not verify is answered
\* 403 INVALID_TOKEN.
C8_NoTokenBeforeStorage ==
    [][/\ Len(reqs') > Len(reqs) =>
            LET q == reqs'[Len(reqs')] IN
            /\ q.route \in ProtectedRoutes
            /\ q.header = NoHeader =>
                  /\ q.res = << Res(401, "NO_TOKEN", NoData) >>
                  /\ UNCHANGED <<db, txn, queue, last>>
            /\ q.header = Bearer(Token(1, FALSE)) =>
                  q.res = << Res(403, "INVALID_TOKEN", NoData) >>
       /\ \A r \in DOMAIN reqs' :
            reqs'[r].header = NoHeader =>
               /\ reqs'[r].res = << Res(401, "NO_TOKEN", NoData) >>
               /\ last'.stmt.req # r
               /\ \A i \in DOMAIN queue' : queue'[i].req # r]_vars

\* a bulk write without header was answered 401 NO_TOKEN and a request with
\* a forged token 403 INVALID_TOKEN; nothing was stored or logged
C8_Witness ==
    /\ \E r \in DOMAIN reqs :
          /\ reqs[r].route = "POST /api/sync"
          /\ reqs[r].header = NoHeader
          /\ reqs[r].res = << Res(401, "NO_TOKEN", NoData) >>
    /\ \E r \in DOMAIN reqs :
          /\ reqs[r].header = Bearer(Token(1, FALSE))
          /\ reqs[r].res = << Res(403, "INVALID_TOKEN", NoData) >>
    /\ db = SeededDb
    /\ queue = << >>

\* C9: GET /api/sync, for a user one of whose stored documents does not parse,
\* leaves the store as it is and returns every document of the user that
\* parses, with its stored payload, and none that does not.
C9_LenientRead ==
    [][(/\ Executed
        /\ last'.stmt.cb \in {"syncNutrition", "syncWorkouts"}
        /\ ~last'.err
        /\ ~reqs[last'.stmt.req].settled
        /\ \E t \in DocTables : \E row \in Rows(db[t]) :
              row.user_id = last'.stmt.uid /\ JSONparse(row.data) = SyntaxError)
       => LET s == last'.stmt
              got == reqs'[s.req].part[PartOf(s.cb)]
          IN  /\ db' = db
              /\ \A row \in Rows(db[TableOf(s.cb)]) :
                    row.user_id = s.uid =>
                       IF JSONparse(row.data) = SyntaxError
                       THEN row.month_key \notin DOMAIN got
                       ELSE /\ row.month_key \in DOMAIN got
                            /\ got[row.month_key] = JSONparse(row.data)]_vars

\* C10: a settings read (GET /api/settings, or the settings query of
\* GET /api/sync) changes nothing in the store and issues no write; for a user
\* without settings row it returns {height: 177, targetBodyFat: 15,
\* currentBodyFat: 22}, and for a user whose written settings document is the
\* stored one it returns that document.
C10_DefaultSettings ==
    [][/\ (/\ Executed
           /\ last'.stmt.op = "SELECT"
           /\ last'.stmt.table = "user_settings"
           /\ ~last'.err
           /\ ~reqs[last'.stmt.req].settled)
          => LET s == last'.stmt
                 q == reqs'[s.req]
                 k == <<"user_settings", s.uid, "">>
                 got == IF s.cb = "settingsRow" THEN q.res[1].data.settings
                        ELSE q.part["settings"]
             IN  /\ db' = db
                 /\ KeyRows(db, k) = {} =>
                       got = JObj(<< <<"height", 177>>, <<"targetBodyFat", 15>>,
                                     <<"currentBodyFat", 22>> >>)
                 /\ (written[k] # Undefined
                       /\ StoredText(db, k) = {JSONstringify(written[k])})
                       => got = written[k]
       /\ \A i \in DOMAIN queue' :
             reqs'[queue'[i].req].route \in {"GET /api/settings", "GET /api/sync"}
                => queue'[i].op = "SELECT" \/ queue'[i].table = "activity_logs"]_vars

\* GET /api/settings and GET /api/sync of a user without settings row were
\* both answered with the default settings, and no row was created
C10_Witness ==
    \E r1, r2 \in DOMAIN reqs :
        /\ reqs[r1].route = "GET /api/settings"
        /\ reqs[r2].route = "GET /api/sync"
        /\ reqs[r1].userId = reqs[r2].userId
        /\ Finished(r1) /\ Finished(r2)
        /\ reqs[r1].res = << Res(200, "", [settings |-> DefaultSettings]) >>
        /\ Succeeded(reqs[r2])
        /\ reqs[r2].res[1].data["settings"] = DefaultSettings
        /\ db.user_settings = EmptyBag

\* a response is still on its way to the request: the process runs and a
\* statement of the request is queued, or its password is being hashed
Pending(r) ==
    up /\ (reqs[r].hashing \/ \E i \in DOMAIN queue : queue[i].req = r)

\* C11: every request is answered at most once, a request without response
\* still has one on its way (so that it is answered once the connection has
\* executed its statements), and a bulk write that has finished was answered
\* with an error when one of its upserts or its COMMIT failed and with
\* success otherwise.
C11_OneTerminalResponse ==
    \A r \in DOMAIN reqs :
        LET q == reqs[r] IN
        /\ Len(q.res) <= 1
        /\ q.res = << >> => Pending(r)
        /\ (q.route = "POST /api/sync" /\ q.header = Bearer(Token(q.userId, TRUE))
              /\ Finished(r))
              => IF q.hasError THEN Failed(q) ELSE Succeeded(q)

\* the action tag a route logs on success
ActionOf(route) ==
    CASE route = "POST /api/auth/register" -> "REGISTER"
      [] route = "GET /api/sync" -> "SYNC_GET"
      [] route = "POST /api/sync" -> "SYNC_SAVE"
      [] route = "POST /api/nutrition/:monthKey" -> "NUTRITION_SAVE"
      [] route = "POST /api/workouts/:monthKey" -> "WORKOUT_SAVE"
      [] route = "POST /api/settings" -> "SETTINGS_SAVE"
      [] OTHER -> ""

\* the user a successful request acted for
ActorOf(q) == IF q.route = "POST /api/auth/register" THEN q.res[1].data.id ELSE q.userId

\* the log entries of a user with an action tag
Entries(logs, uid, action) ==
    Cardinality({i \in DOMAIN logs : logs[i] = LogRow(uid, action)})

\* the requests answered with success that log the action for the user
Successes(rq, uid, action) ==
    Cardinality({r \in DOMAIN rq : /\ Succeeded(rq[r])
                                   /\ ActionOf(rq[r].route) = action
                                   /\ ActorOf(rq[r]) = uid})

\* C12: no step updates or removes a log entry (the log after a step begins
\* with the log before it), and once the connection has executed every
\* statement, the log holds one entry per successful register, write, bulk
\* write and bulk read, for the acting user.
C12_ActivityLog ==
    [][/\ Len(db'.activity_logs) >= Len(db.activity_logs)
       /\ SubSeq(db'.activity_logs, 1, Len(db.activity_logs)) = db.activity_logs
       /\ (up' /\ queue' = << >> /\ \A r \in DOMAIN reqs' : ~reqs'[r].hashing) =>
             \A r \in DOMAIN reqs' :
                 Succeeded(reqs'[r]) /\ ActionOf(reqs'[r].route) # "" =>
                    Entries(db'.activity_logs, ActorOf(reqs'[r]), ActionOf(reqs'[r].route))
                       = Successes(reqs', ActorOf(reqs'[r]), ActionOf(reqs'[r].route))]_vars

\* C13: when only log inserts are rejected, every write and bulk read is
\* answered with success or still has its response on its way, and every key
\* that was written holds the payload of the latest upsert executed on it.
C13_LogFailureSwallowed ==
    /\ \A r \in DOMAIN reqs :
          /\ reqs[r].res # << >> => Succeeded(reqs[r])
          /\ reqs[r].res = << >> => Pending(r)
    /\ \A k \in WrittenKeys :
          written[k] # Undefined => StoredText(db, k) = {JSONstringify(written[k])}

\* the request lacks a required field: no `data`, no `settings`, no email or
\* password, or a password of fewer than 6 characters
Invalid(q) ==
    CASE q.route \in {"POST /api/nutrition/:monthKey", "POST /api/workouts/:monthKey"} ->
            q.userId # 0 /\ q.body.data = Undefined
      [] q.route = "POST /api/settings" -> q.userId # 0 /\ q.body.settings = Undefined
      [] q.route = "POST /api/auth/register" ->
            q.body.email = "" \/ q.body.password = "" \/ Len(q.body.password) < 6
      [] OTHER -> FALSE

\* C14: a write without payload and a registration with a missing field or a
\* short password are answered 4xx with a code by the step that receives
\* them, which leaves the tables, the transaction and the statement queue as
\* they were; no statement is ever issued or executed for such a request.
C14_ValidationBeforeStorage ==
    [][/\ Len(reqs') > Len(reqs) =>
            LET q == reqs'[Len(reqs')] IN
            Invalid(q) =>
               /\ Len(q.res) = 1
               /\ q.res[1].status \in 400..499
               /\ q.res[1].code \in {"MISSING_DATA", "MISSING_SETTINGS", "MISSING_FIELDS",
                                     "PASSWORD_TOO_SHORT"}
               /\ UNCHANGED <<db, txn, queue, last>>
       /\ \A r \in DOMAIN reqs' :
            Invalid(reqs'[r]) =>
               /\ ~reqs'[r].hashing
               /\ last'.stmt.req # r
               /\ \A i \in DOMAIN queue' : queue'[i].req # r]_vars

\* a nutrition write without data was answered 400 MISSING_DATA and a
\* registration with a short password 400 PASSWORD_TOO_SHORT; the tables are
\* the ones stored before and nothing is queued
C14_Witness ==
    /\ \E r \in DOMAIN reqs :
          /\ reqs[r].route = "POST /api/nutrition/:monthKey"
          /\ reqs[r].body.data = Undefined
          /\ reqs[r].res = << Res(400, "MISSING_DATA", NoData) >>
    /\ \E r \in DOMAIN reqs :
          /\ reqs[r].route = "POST /api/auth/register"
          /\ reqs[r].body.password = "abc"
          /\ reqs[r].res = << Res(400, "PASSWORD_TOO_SHORT", NoData) >>
    /\ db = SeededDb
    /\ queue = << >>

\* C15: GET /api/logs returns at most 100 entries whatever the `limit`
\* parameter is, and at most 50 when it is absent.
C15_BoundedLogs ==
    \A r \in DOMAIN reqs :
        (reqs[r].route = "GET /api/logs" /\ Succeeded(reqs[r])) =>
            /\ reqs[r].res[1].data.count <= 100
            /\ reqs[r].body.limit = Undefined => reqs[r].res[1].data.count <= 50

\* the row an upsert statement writes
RowOf(s) ==
    IF s.table = "user_settings" THEN SettingsRow(s.uid, s.text)
    ELSE DocRow(s.uid, s.key, s.text)

\* the positions in a queue of the upserts of request r that write the row
UpsertsOf(qu, r, table, row) ==
    {i \in DOMAIN qu : /\ qu[i].req = r /\ qu[i].op = "REPLACE"
                        /\ qu[i].table = table /\ RowOf(qu[i]) = row}

\* the number of entries of the object-typed sections of a bulk body
EntryCount(q) ==
    Cardinality(UpsertedRows(q, "nutrition_data"))
        + Cardinality(UpsertedRows(q, "workout_data"))
        + Cardinality(UpsertedRows(q, "user_settings"))

\* C16: a bulk write issues exactly one upsert per entry of each present
\* object-typed section and no other upsert; when its COMMIT answers it with
\* success, the `operations` count of the response is the number of those
\* entries, the transaction is closed and every one of its documents is
\* stored.
C16_OperationsCount ==
    [][/\ Len(reqs') > Len(reqs) =>
            LET r == Len(reqs')
                q == reqs'[r]
            IN  (q.route = "POST /api/sync" /\ q.userId # 0) =>
                   /\ \A t \in Tables3 : \A row \in UpsertedRows(q, t) :
                          Cardinality(UpsertsOf(queue', r, t, row)) = 1
                   /\ Cardinality({i \in DOMAIN queue' :
                                      queue'[i].req = r /\ queue'[i].op = "REPLACE"})
                         = EntryCount(q)
       /\ (Executed /\ last'.stmt.cb = "syncCommit"
              /\ Succeeded(reqs'[last'.stmt.req])) =>
            LET q == reqs'[last'.stmt.req] IN
            /\ q.res[1].data.operations = EntryCount(q)
            /\ ~txn'.active
            /\ \A t \in Tables3 : UpsertedRows(q, t) \subseteq Rows(db'[t])]_vars

\* a bulk write of two nutrition months, one workout month and settings has
\* finished with success and reported 4 operations; its 4 documents are stored
C16_Witness ==
    \E r \in DOMAIN reqs :
        /\ reqs[r].body = Body(TwoMonths, OneMonth, PlanB)
        /\ Finished(r)
        /\ reqs[r].res = << Res(200, "", [operations |-> 4]) >>
        /\ EntryCount(reqs[r]) = 4
        /\ \A t \in Tables3 : UpsertedRows(reqs[r], t) \subseteq Rows(db[t])

\* the rows a write request stores in a table
RowsOfRequest(q, table) ==
    CASE q.route = "POST /api/sync" -> UpsertedRows(q, table)
      [] q.route = "POST /api/nutrition/:monthKey" /\ table = "nutrition_data" ->
            {DocRow(q.userId, q.key, JSONstringify(q.body.data))}
      [] q.route = "POST /api/workouts/:monthKey" /\ table = "workout_data" ->
            {DocRow(q.userId, q.key, JSONstringify(q.body.data))}
      [] q.route = "POST /api/settings" /\ table = "user_settings" ->
            {SettingsRow(q.userId, JSONstringify(q.body.settings))}
      [] OTHER -> {}

\* C17: the ROLLBACK of a bulk write removes no stored document of another
\* request that was answered with success.
C17_RollbackSparesOthers ==
    [][(Executed /\ last'.stmt.op = "ROLLBACK") =>
          \A r \in DOMAIN reqs \ {last'.stmt.req} :
              Succeeded(reqs[r]) =>
                 \A t \in Tables3 : \A row \in RowsOfRequest(reqs[r], t) :
                     row \in Rows(db[t]) => row \in Rows(db'[t])]_vars

\* C18: a bulk write's BEGIN opens a transaction on a connection that has none
\* open; its COMMIT takes effect only when none of its upserts failed, and
\* its ROLLBACK only when one failed or the COMMIT did; and when every bulk
\* write has finished, no transaction is open.
C18_TransactionBracketing ==
    [][/\ (Executed /\ last'.stmt.op = "BEGIN") =>
            (~txn.active /\ ~last'.err /\ txn'.active)
       /\ (Executed /\ last'.stmt.op = "COMMIT" /\ ~last'.err) =>
            (~reqs[last'.stmt.req].hasError /\ ~txn'.active)
       /\ (Executed /\ last'.stmt.op = "ROLLBACK") =>
            (~last'.err /\ ~txn'.active)
       /\ (\A r \in DOMAIN reqs' : FinishedIn(reqs', queue', r)) => ~txn'.active]_vars

====
